---- MODULE Spec2Model ----
(***************************************************************************)
(* QR Code Editor: the session state kept by the App component, the        *)
(* asynchronous scan / replace operations it starts on the file service,   *)
(* and the object-URL handles both of them create and revoke.              *)
(*                                                                         *)
(* A handler that awaits is split where it awaits: one action runs the     *)
(* handler up to the await (the operation is then in flight, carrying the  *)
(* values its closure captured), a second action runs the continuation    *)
(* (try / catch / finally) when the service settles.  Between the two any  *)
(* other handler the rendered UI offers may run.                           *)
(***************************************************************************)
EXTENDS Integers, Sequences, FiniteSets, Bags, TLC

VARIABLES
    app,        \* the useState cells of App
    inflight,   \* the bag of operations awaiting the file service
    issued,     \* object URLs ever created: handle h names the blob issued[h]
    revoked,    \* object URLs passed to URL.revokeObjectURL
    now,        \* Date.now() as last read; it never runs backwards
    started,    \* scans and replaces begun so far
    ev,         \* the handler step that produced this state, and the
                \* operation it settled
    geo,        \* one call of modifyPdf / modifyImage: its detection, the
                \* page height, and what it drew
    load        \* the two image loads of one modifyImage call, its
                \* loadedCount and its promise

vars == <<app, inflight, issued, revoked, now, started, ev, geo, load>>

---------------------------------------------------------------------------
(* Bounds *)

MaxTime == 2
MaxOps == 3

---------------------------------------------------------------------------
(* Inputs: the files a user can pick and the texts a user can type *)

Files == {"a.pdf", "b.png", "c.pdf", "d.gif", "e.txt"}

\* file.type
MediaType(f) ==
    CASE f \in {"a.pdf", "c.pdf"} -> "application/pdf"
      [] f = "b.png" -> "image/png"
      [] f = "d.gif" -> "image/gif"
      [] OTHER -> "text/plain"

\* type.startsWith('image/')
IsImageType(mt) == mt \in {"image/png", "image/jpeg", "image/gif"}

NumPages(f) == IF f = "a.pdf" THEN 2 ELSE IF f = "c.pdf" THEN 1 ELSE 0

\* what the decoder returns for page p of file f (p is ignored for an
\* image): null, one code, or an array of codes; c.pdf and d.gif hold none
jsQR(f, p) ==
    IF f = "a.pdf"
    THEN (IF p = 1 THEN [shape |-> "array", codes |-> <<"p", "q">>]
                   ELSE [shape |-> "one", codes |-> <<"r">>])
    ELSE IF f = "b.png" THEN [shape |-> "one", codes |-> <<"s">>]
    ELSE [shape |-> "null", codes |-> << >>]

\* if (!codes) return []; Array.isArray(codes) ? codes : [codes]
PageCodes(f, p) ==
    LET codes == jsQR(f, p) IN
    IF codes.shape = "null" THEN << >> ELSE codes.codes

Texts == {"x", "big"}

\* the encoder rejects a text beyond the capacity of level H
OverCapacity(t) == t = "big"

---------------------------------------------------------------------------
(* Values *)

NoFile == ""
NoType == "null"
NoUrl == 0
NoId == <<>>
EmptyMap == [k \in {} |-> ""]

NoRaster ==
    [kind |-> "null", h |-> NoUrl, file |-> NoFile, page |-> 0, loc |-> 0, text |-> ""]

NoQr == [id |-> NoId, data |-> "", loc |-> 0]

NoOp ==
    [kind |-> "none", file |-> NoFile, fileType |-> NoType, page |-> 0,
     qr |-> NoQr, text |-> "", qrCodes |-> <<>>, editedQrCodes |-> EmptyMap,
     processedFileUrl |-> NoUrl]

\* Map.get(k) || d
MapGetOr(m, k, d) == IF k \in DOMAIN m /\ m[k] # "" THEN m[k] ELSE d

\* new Map(m).set(k, v)
MapSet(m, k, v) == [x \in DOMAIN m \cup {k} |-> IF x = k THEN v ELSE m[x]]

---------------------------------------------------------------------------
(* File service *)

FileTypeOf(f) ==
    IF IsImageType(MediaType(f)) THEN "image"
    ELSE IF MediaType(f) = "application/pdf" THEN "pdf" ELSE NoType

\* the detections of one scan: id is `${Date.now()}-${index}`
scanCanvasForQrCodes(f, p, t) ==
    LET found == PageCodes(f, p) IN
    [i \in 1..Len(found) |-> [id |-> <<t, i - 1>>, data |-> found[i], loc |-> i]]

\* the data URL of page p of f rendered at RENDER_SCALE
renderPdfPageToDataUrl(f, p) ==
    [kind |-> "data", h |-> NoUrl, file |-> f, page |-> p, loc |-> 0, text |-> ""]

\* how a scan can settle: "ok"; "fail" before any object URL is made
\* (unreadable file, page out of range, render error); "loadfail" once the
\* image element or the canvas context fails
ScanOutcomes(f, p) ==
    IF MediaType(f) = "application/pdf"
    THEN (IF p \in 1..NumPages(f) THEN {"ok", "fail"} ELSE {"fail"})
    ELSE IF IsImageType(MediaType(f)) THEN {"ok", "fail", "loadfail"}
    ELSE {"fail"}

\* does the scan call URL.createObjectURL(file)
ScanCreatesUrl(f, out) ==
    IsImageType(MediaType(f)) /\ MediaType(f) # "application/pdf"
        /\ out \in {"ok", "loadfail"}

\* does the scan revoke the URL it made
ScanRevokesUrl(f, out) == ScanCreatesUrl(f, out) /\ out = "ok"

\* the resolved value of processFileForQrCodes; h is the object URL it made
processFileForQrCodes(f, p, t, h) ==
    IF MediaType(f) = "application/pdf"
    THEN [codes |-> scanCanvasForQrCodes(f, p, t),
          dataUrl |-> renderPdfPageToDataUrl(f, p),
          pageCount |-> NumPages(f)]
    ELSE [codes |-> scanCanvasForQrCodes(f, p, t),
          dataUrl |-> [kind |-> "object", h |-> h, file |-> f, page |-> 0,
                       loc |-> 0, text |-> ""],
          pageCount |-> 0]

\* how a replace can settle: "encfail" when the encoder rejects the text,
\* "fail" before the image path makes its object URL, "loadfail" after it
ReplaceOutcomes(op) ==
    IF OverCapacity(op.text) THEN {"encfail"}
    ELSE IF op.fileType = "pdf"
    THEN (IF op.page \in 1..NumPages(op.file) THEN {"ok", "fail"} ELSE {"fail"})
    ELSE IF op.fileType = "image" THEN {"ok", "loadfail"}
    ELSE {"fail"}

\* the blob behind URL.createObjectURL(file): the file as uploaded
SourceBlob(f) == [kind |-> "source", file |-> f, page |-> 0, loc |-> 0, text |-> ""]

ModifiedBlobEncodesOldData(op) ==
    [kind |-> "artifact", file |-> op.file,
     page |-> IF op.fileType = "pdf" THEN op.page ELSE 0,
     loc |-> op.qr.loc, text |-> op.qr.data]

\* the blob a replace resolves with: the ORIGINAL file with the one region
\* (page, loc) covered and redrawn as the QR code of the new text
ModifiedBlob(op) ==
    [kind |-> "artifact", file |-> op.file,
     page |-> IF op.fileType = "pdf" THEN op.page ELSE 0,
     loc |-> op.qr.loc, text |-> op.text]

\* does modifyImage call URL.createObjectURL(imageFile)
ReplaceCreatesUrl(op, out) == op.fileType = "image" /\ out \in {"ok", "loadfail"}

\* the preview raster a replace resolves with: the ORIGINAL file with the
\* one region loc redrawn as the code of text
modifyFileWithNewQr(op) ==
    IF op.fileType = "pdf"
    THEN [kind |-> "data", h |-> NoUrl, file |-> op.file, page |-> op.page,
          loc |-> op.qr.loc, text |-> op.text]
    ELSE [kind |-> "data", h |-> NoUrl, file |-> op.file, page |-> 0,
          loc |-> op.qr.loc, text |-> op.text]

---------------------------------------------------------------------------
(* Object URLs *)

\* the model follows a session for MaxOps scans and replaces
CanStart(op) == started < MaxOps

\* the operation starts awaiting
Started(b, op) == b (+) SetToBag({op})

\* the operation settles
Settled(b, op) == b (-) SetToBag({op})

\* if (url) URL.revokeObjectURL(url)
RevokeIfSet(r, url) == IF url # NoUrl THEN r \cup {url} ELSE r

---------------------------------------------------------------------------
(* App: state transformers, one per block of a handler *)

InitApp ==
    [file |-> NoFile, fileType |-> NoType, fileDataUrl |-> NoRaster,
     qrCodes |-> <<>>, editedQrCodes |-> EmptyMap, selectedQrId |-> NoId,
     isLoading |-> FALSE, processedFileUrl |-> NoUrl,
     totalPages |-> 0, currentPage |-> 1]

\* resetState, its setters
ResetState(s) ==
    [s EXCEPT !.file = NoFile, !.fileType = NoType, !.fileDataUrl = NoRaster,
              !.qrCodes = <<>>, !.editedQrCodes = EmptyMap, !.selectedQrId = NoId,
              !.processedFileUrl = NoUrl, !.totalPages = 0, !.currentPage = 1]

\* finally { setIsLoading(false) }
Finally(s) == [s EXCEPT !.isLoading = FALSE]

\* handleFileChange up to the await
FileChangeStart(s, f) ==
    [ResetState(s) EXCEPT !.isLoading = TRUE, !.file = f, !.fileType = FileTypeOf(f)]

FileChangeTryResetsOnEmpty(s, op, res) ==
    IF res.codes = <<>>
    THEN ResetState(s)
    ELSE [s EXCEPT !.qrCodes = res.codes,
                   !.fileDataUrl = res.dataUrl,
                   !.totalPages = IF op.fileType = "pdf"
                                  THEN (IF res.pageCount = 0 THEN 1 ELSE res.pageCount)
                                  ELSE @,
                   !.currentPage = IF op.fileType = "pdf" THEN 1 ELSE @]

\* handleFileChange, the try block after the await
FileChangeTry(s, op, res) ==
    [s EXCEPT !.qrCodes = res.codes,
              !.fileDataUrl = res.dataUrl,
              !.totalPages = IF op.fileType = "pdf"
                             THEN (IF res.pageCount = 0 THEN 1 ELSE res.pageCount)
                             ELSE @,
              !.currentPage = IF op.fileType = "pdf" THEN 1 ELSE @]

FileChangeCatchSkipsReset(s) == s

\* handleFileChange, the catch block
FileChangeCatch(s) == ResetState(s)

PageChangeTryKeepsSelection(s, op, res) ==
    [s EXCEPT !.qrCodes = res.codes, !.fileDataUrl = res.dataUrl,
              !.currentPage = op.page]

PageChangeTryClearsEdits(s, op, res) ==
    [s EXCEPT !.qrCodes = res.codes, !.fileDataUrl = res.dataUrl,
              !.currentPage = op.page, !.selectedQrId = NoId,
              !.editedQrCodes = EmptyMap]

\* handlePageChange, the try block after the await
PageChangeTry(s, op, res) ==
    [s EXCEPT !.qrCodes = res.codes, !.fileDataUrl = res.dataUrl,
              !.currentPage = op.page, !.selectedQrId = NoId]

PageChangeCatchSetsPage(s, op) == [s EXCEPT !.currentPage = op.page]

\* handlePageChange, the catch block
PageChangeCatch(s, op) == s

QrUpdateTryKeepsPreview(s, op, raster, url) ==
    [s EXCEPT !.qrCodes = [i \in 1..Len(op.qrCodes) |->
                              IF op.qrCodes[i].id = op.qr.id
                              THEN [op.qrCodes[i] EXCEPT !.data = op.text]
                              ELSE op.qrCodes[i]],
              !.editedQrCodes = MapSet(op.editedQrCodes, op.qr.id, op.text),
              !.processedFileUrl = url]

\* handleQrUpdate, the try block after the await; every value but the
\* setters' targets comes from the closure (op), not from the current state
QrUpdateTry(s, op, raster, url) ==
    [s EXCEPT !.qrCodes = [i \in 1..Len(op.qrCodes) |->
                              IF op.qrCodes[i].id = op.qr.id
                              THEN [op.qrCodes[i] EXCEPT !.data = op.text]
                              ELSE op.qrCodes[i]],
              !.editedQrCodes = MapSet(op.editedQrCodes, op.qr.id, op.text),
              !.processedFileUrl = url,
              !.fileDataUrl = raster]

QrUpdateCatchKeepsEdit(s, op) ==
    [s EXCEPT !.editedQrCodes = MapSet(s.editedQrCodes, op.qr.id, op.text)]

\* handleQrUpdate, the catch block
QrUpdateCatch(s, op) == s

---------------------------------------------------------------------------
(* Rendered UI *)

QrIds(s) == {s.qrCodes[i].id : i \in 1..Len(s.qrCodes)}

\* qrCodes.find(qr => qr.id === selectedQrId)
SelectedQr(s) ==
    IF s.selectedQrId \in QrIds(s)
    THEN s.qrCodes[CHOOSE i \in 1..Len(s.qrCodes) :
                      /\ s.qrCodes[i].id = s.selectedQrId
                      /\ \A j \in 1..(i - 1) : s.qrCodes[j].id # s.selectedQrId]
    ELSE NoQr

\* FileUpload.handleFile
Accepted(f) == MediaType(f) = "application/pdf" \/ IsImageType(MediaType(f))

\* the Update button is enabled
UpdateEnabled(s, t) ==
    /\ SelectedQr(s) # NoQr
    /\ t # ""
    /\ t # MapGetOr(s.editedQrCodes, SelectedQr(s).id, SelectedQr(s).data)

\* the Prev / Next buttons that are rendered, enabled and not under the
\* busy overlay
PageButtons(s) ==
    IF s.file = NoFile \/ s.fileType # "pdf" \/ s.totalPages <= 1 \/ s.isLoading
    THEN {}
    ELSE {p \in {s.currentPage - 1, s.currentPage + 1} :
             /\ (p = s.currentPage - 1 => ~(s.currentPage <= 1))
             /\ (p = s.currentPage + 1 => ~(s.currentPage >= s.totalPages))}

---------------------------------------------------------------------------
(* Replacement geometry: modifyPdf and modifyImage on one detection *)

\* const RENDER_SCALE = 2.0: canvas pixels per PDF point
RENDER_SCALE == 2

\* canvas positions of the top-left corner a detection can have
Origins == {[x |-> x, y |-> y] : x \in {8, 12}, y \in {8, 10, 12}}

\* the edge from the top-left corner to the top-right or to the bottom-left
\* corner: none, an axis-parallel one in each direction, and two slanted
\* ones; every length is an even whole number, so that the square root and
\* the division by RENDER_SCALE below are exact
Edges ==
    {[x |-> 0, y |-> 0], [x |-> 4, y |-> 0], [x |-> -4, y |-> 0],
     [x |-> 0, y |-> 4], [x |-> 0, y |-> -4], [x |-> 8, y |-> 6],
     [x |-> -6, y |-> 8]}

\* page.getSize().height, in points
PageHeights == {20, 30}

Plus(a, b) == [x |-> a.x + b.x, y |-> a.y + b.y]

\* the two edges at the top-left corner of a detection: those of a square
\* code in any of the rotations above (the left edge is the top edge turned
\* a quarter clockwise), or a pair with an edge of no length
EdgePairs ==
    {p \in Edges \X Edges :
        \/ p[1] = [x |-> 0, y |-> 0]
        \/ p[2] = [x |-> 0, y |-> 0]
        \/ p[2] = [x |-> -p[1].y, y |-> p[1].x]}

\* qrToReplace.location of the detections handed to a replace
Quads ==
    {[topLeftCorner |-> o, topRightCorner |-> Plus(o, p[1]),
      bottomLeftCorner |-> Plus(o, p[2]),
      bottomRightCorner |-> Plus(Plus(o, p[1]), p[2])] :
        o \in Origins, p \in EdgePairs}

\* Math.sqrt, rounded down (exact on the squares the Quads give)
Sqrt(n) == CHOOSE r \in 0..n : r * r <= n /\ (r + 1) * (r + 1) > n

\* Math.sqrt(Math.pow(b.x - a.x, 2) + Math.pow(b.y - a.y, 2)), Math.hypot
Hypot(a, b) == Sqrt((b.x - a.x) * (b.x - a.x) + (b.y - a.y) * (b.y - a.y))

Min(S) == CHOOSE m \in S : \A n \in S : m <= n

Max(S) == CHOOSE m \in S : \A n \in S : m >= n

NoRect == [x |-> 0, y |-> 0, width |-> 0, height |-> 0]

NoQuad ==
    [topLeftCorner |-> [x |-> 0, y |-> 0], topRightCorner |-> [x |-> 0, y |-> 0],
     bottomLeftCorner |-> [x |-> 0, y |-> 0], bottomRightCorner |-> [x |-> 0, y |-> 0]]

NoGeo ==
    [pc |-> "idle", target |-> "none", q |-> NoQuad, pageHeight |-> 0,
     fill |-> NoQuad, occlusion |-> NoRect, placement |-> NoRect, result |-> "none"]

modifyPdfNoFlip(q, pageHeight) ==
    LET topLeft == q.topLeftCorner
        canvasWidth == Hypot(topLeft, q.topRightCorner)
        canvasHeight == Hypot(topLeft, q.bottomLeftCorner)
        rect == [x |-> topLeft.x \div RENDER_SCALE,
                 y |-> topLeft.y \div RENDER_SCALE,
                 width |-> canvasWidth \div RENDER_SCALE,
                 height |-> canvasHeight \div RENDER_SCALE]
    IN  [fill |-> NoQuad, occlusion |-> rect, placement |-> rect, result |-> "ok"]

\* modifyPdf: the rectangle in points (y up) that page.drawRectangle covers
\* in white and page.drawImage puts the new code in; nothing in it throws
\* on a size of zero, so the document is saved and returned
modifyPdf(q, pageHeight) ==
    LET topLeft == q.topLeftCorner
        canvasWidth == Hypot(topLeft, q.topRightCorner)
        canvasHeight == Hypot(topLeft, q.bottomLeftCorner)
        qrWidthInPoints == canvasWidth \div RENDER_SCALE
        qrHeightInPoints == canvasHeight \div RENDER_SCALE
        qrXInPoints == topLeft.x \div RENDER_SCALE
        qrYInPoints == pageHeight - (topLeft.y \div RENDER_SCALE) - qrHeightInPoints
        rect == [x |-> qrXInPoints, y |-> qrYInPoints,
                 width |-> qrWidthInPoints, height |-> qrHeightInPoints]
    IN  [fill |-> NoQuad, occlusion |-> rect, placement |-> rect, result |-> "ok"]

\* modifyImage, once both images are loaded: the detection's quadrilateral
\* is filled white and the new code is drawn into the box of its four
\* corners, in canvas pixels (y down); ctx.drawImage draws nothing and does
\* not throw when the box is empty, so the blob is resolved
modifyImage(q) ==
    LET xs == {q.topLeftCorner.x, q.topRightCorner.x,
               q.bottomLeftCorner.x, q.bottomRightCorner.x}
        ys == {q.topLeftCorner.y, q.topRightCorner.y,
               q.bottomLeftCorner.y, q.bottomRightCorner.y}
        minX == Min(xs)
        minY == Min(ys)
        boxWidth == Max(xs) - minX
        boxHeight == Max(ys) - minY
    IN  [fill |-> q, occlusion |-> NoRect,
         placement |-> [x |-> minX, y |-> minY, width |-> boxWidth, height |-> boxHeight],
         result |-> "ok"]

\* modifyImage before the two src assignments: neither image has reported,
\* nothing is composited, the promise is pending
NoLoad ==
    [originalImg |-> "idle", newQrImg |-> "idle", loadedCount |-> 0,
     order |-> <<>>, composites |-> 0, toBlob |-> "none", promise |-> "pending"]

\* resolve / reject of the promise modifyImage returns: the first one wins
Settle(l, how) == IF l.promise = "pending" THEN [l EXCEPT !.promise = how] ELSE l

onLoadedCompositesEarly(l, ctxOk) ==
    LET n == l.loadedCount + 1
        counted == [l EXCEPT !.loadedCount = n]
    IN  IF n >= 1
        THEN IF ~ctxOk
             THEN Settle(counted, "rejected")
             ELSE [counted EXCEPT !.composites = @ + 1, !.toBlob = "requested"]
        ELSE counted

\* onLoaded: count the load; on the second one get the canvas context
\* (reject and return without it), composite and ask for the blob
onLoaded(l, ctxOk) ==
    LET n == l.loadedCount + 1
        counted == [l EXCEPT !.loadedCount = n]
    IN  IF n = 2
        THEN IF ~ctxOk
             THEN Settle(counted, "rejected")
             ELSE [counted EXCEPT !.composites = @ + 1, !.toBlob = "requested"]
        ELSE counted

---------------------------------------------------------------------------
(* Actions *)

Init ==
    /\ app = InitApp
    /\ inflight = EmptyBag
    /\ started = 0
    /\ issued = <<>>
    /\ revoked = {}
    /\ now = 1
    /\ ev = [type |-> "init", op |-> NoOp]
    /\ geo = NoGeo
    /\ load = NoLoad

\* FileUpload -> handleFileChange, to its await
SelectFile ==
    \E f \in Files :
        LET op == [NoOp EXCEPT !.kind = "file", !.file = f, !.fileType = FileTypeOf(f),
                               !.page = 1, !.processedFileUrl = app.processedFileUrl]
        IN  /\ app.file = NoFile
            /\ Accepted(f)
            /\ CanStart(op)
            /\ app' = FileChangeStart(app, f)
            /\ revoked' = RevokeIfSet(revoked, app.processedFileUrl)
            /\ inflight' = Started(inflight, op)
            /\ started' = started + 1
            /\ ev' = [type |-> "selectFile", op |-> NoOp]
            /\ UNCHANGED <<issued, now, geo, load>>

\* handleFileChange, from its await on
FileChangeDone ==
    \E op \in BagToSet(inflight) :
        /\ op.kind = "file"
        /\ \E out \in ScanOutcomes(op.file, op.page), t \in now..MaxTime :
            LET h == Len(issued) + 1
                res == processFileForQrCodes(op.file, op.page, t, h)
            IN  /\ now' = t
                /\ issued' = IF ScanCreatesUrl(op.file, out)
                             THEN Append(issued, SourceBlob(op.file)) ELSE issued
                /\ IF out = "ok"
                   THEN /\ app' = Finally(FileChangeTry(app, op, res))
                        /\ revoked' = IF ScanRevokesUrl(op.file, out)
                                      THEN revoked \cup {h} ELSE revoked
                        /\ ev' = [type |-> "fileOk", op |-> op]
                   ELSE /\ app' = Finally(FileChangeCatch(app))
                        /\ revoked' = RevokeIfSet(revoked, op.processedFileUrl)
                        /\ ev' = [type |-> "fileFail", op |-> op]
        /\ inflight' = Settled(inflight, op)
        /\ UNCHANGED <<started, geo, load>>

\* Pagination -> handlePageChange, to its await
PageChange ==
    \E p \in PageButtons(app) :
        LET op == [NoOp EXCEPT !.kind = "page", !.file = app.file,
                               !.fileType = app.fileType, !.page = p]
        IN  /\ ~(app.file = NoFile \/ p < 1 \/ p > app.totalPages)
            /\ CanStart(op)
            /\ app' = [app EXCEPT !.isLoading = TRUE]
            /\ inflight' = Started(inflight, op)
            /\ started' = started + 1
            /\ ev' = [type |-> "page", op |-> NoOp]
            /\ UNCHANGED <<issued, revoked, now, geo, load>>

\* handlePageChange, from its await on
PageChangeDone ==
    \E op \in BagToSet(inflight) :
        /\ op.kind = "page"
        /\ \E out \in ScanOutcomes(op.file, op.page), t \in now..MaxTime :
            LET h == Len(issued) + 1
                res == processFileForQrCodes(op.file, op.page, t, h)
            IN  /\ now' = t
                /\ issued' = IF ScanCreatesUrl(op.file, out)
                             THEN Append(issued, SourceBlob(op.file)) ELSE issued
                /\ revoked' = IF ScanRevokesUrl(op.file, out)
                              THEN revoked \cup {h} ELSE revoked
                /\ IF out = "ok"
                   THEN /\ app' = Finally(PageChangeTry(app, op, res))
                        /\ ev' = [type |-> "pageOk", op |-> op]
                   ELSE /\ app' = Finally(PageChangeCatch(app, op))
                        /\ ev' = [type |-> "pageFail", op |-> op]
        /\ inflight' = Settled(inflight, op)
        /\ UNCHANGED <<started, geo, load>>

\* processFileForQrCodes, img.onload: scanCanvasForQrCodes (getImageData,
\* jsQR) throws inside the async handler; nothing catches it there, so the
\* promise the handler awaits is neither resolved nor rejected and the
\* continuation of handleFileChange / handlePageChange never runs
ScanDecodeThrows ==
    \E op \in BagToSet(inflight) :
        /\ op.kind \in {"file", "page"}
        /\ "ok" \in ScanOutcomes(op.file, op.page)
        /\ inflight' = Started(Settled(inflight, op), [op EXCEPT !.kind = "hung"])
        /\ issued' = IF ScanCreatesUrl(op.file, "ok")
                     THEN Append(issued, SourceBlob(op.file)) ELSE issued
        /\ ev' = [type |-> "scanThrow", op |-> NoOp]
        /\ UNCHANGED <<app, revoked, now, started, geo, load>>

\* a click on an entry of the QrCodeEditor list (the list is not under the
\* busy overlay)
QrSelect ==
    \E id \in QrIds(app) :
        /\ app.file # NoFile
        /\ app' = [app EXCEPT !.selectedQrId = id]
        /\ ev' = [type |-> "select", op |-> NoOp]
        /\ UNCHANGED <<inflight, issued, revoked, now, started, geo, load>>

\* Update button -> handleUpdateClick -> handleQrUpdate, to its await
QrUpdate ==
    \E t \in Texts :
        LET op == [kind |-> "update", file |-> app.file, fileType |-> app.fileType,
                   page |-> app.currentPage, qr |-> SelectedQr(app), text |-> t,
                   qrCodes |-> app.qrCodes, editedQrCodes |-> app.editedQrCodes,
                   processedFileUrl |-> app.processedFileUrl]
        IN  /\ app.file # NoFile
            /\ Len(app.qrCodes) # 0
            /\ UpdateEnabled(app, t)
            /\ ~(app.file = NoFile \/ app.fileType = NoType)
            /\ CanStart(op)
            /\ app' = [app EXCEPT !.isLoading = TRUE]
            /\ inflight' = Started(inflight, op)
            /\ started' = started + 1
            /\ ev' = [type |-> "update", op |-> NoOp]
            /\ UNCHANGED <<issued, revoked, now, geo, load>>

\* handleQrUpdate, from its await on
QrUpdateDone ==
    \E op \in BagToSet(inflight) :
        /\ op.kind = "update"
        /\ \E out \in ReplaceOutcomes(op) :
            LET made == IF ReplaceCreatesUrl(op, out)
                        THEN Append(issued, SourceBlob(op.file)) ELSE issued
                url == Len(made) + 1
            IN  IF out = "ok"
                THEN /\ app' = Finally(QrUpdateTry(app, op, modifyFileWithNewQr(op), url))
                     /\ issued' = Append(made, ModifiedBlob(op))
                     /\ revoked' = RevokeIfSet(revoked, op.processedFileUrl)
                     /\ ev' = [type |-> "updateOk", op |-> op]
                ELSE /\ app' = Finally(QrUpdateCatch(app, op))
                     /\ issued' = made
                     /\ revoked' = revoked
                     /\ ev' = [type |-> "updateFail", op |-> op]
        /\ inflight' = Settled(inflight, op)
        /\ UNCHANGED <<started, geo, load>>
        /\ UNCHANGED now

\* Start Over / Upload Another File -> resetState
Reset ==
    /\ app.file # NoFile
    /\ app' = ResetState(app)
    /\ revoked' = RevokeIfSet(revoked, app.processedFileUrl)
    /\ ev' = [type |-> "reset", op |-> NoOp]
    /\ UNCHANGED <<inflight, issued, now, started, geo, load>>

Next ==
    \/ SelectFile
    \/ FileChangeDone
    \/ PageChange
    \/ PageChangeDone
    \/ ScanDecodeThrows
    \/ QrSelect
    \/ QrUpdate
    \/ QrUpdateDone
    \/ Reset

Spec == Init /\ [][Next]_vars

---------------------------------------------------------------------------
(* One replacement, on any detection *)

\* a replace is called with a detection and, for a PDF, the page's height
GeoInit ==
    /\ app = InitApp
    /\ inflight = EmptyBag
    /\ started = 0
    /\ issued = <<>>
    /\ revoked = {}
    /\ now = 1
    /\ ev = [type |-> "init", op |-> NoOp]
    /\ load = NoLoad
    /\ \E q \in Quads :
          \/ \E h \in PageHeights :
                geo = [NoGeo EXCEPT !.pc = "called", !.target = "pdf",
                                    !.q = q, !.pageHeight = h]
          \/ geo = [NoGeo EXCEPT !.pc = "called", !.target = "image", !.q = q]

\* modifyFileWithNewQr -> modifyPdf
ModifyPdfCall ==
    /\ geo.pc = "called"
    /\ geo.target = "pdf"
    /\ LET r == modifyPdf(geo.q, geo.pageHeight)
       IN  geo' = [geo EXCEPT !.pc = "done", !.fill = r.fill, !.occlusion = r.occlusion,
                              !.placement = r.placement, !.result = r.result]
    /\ UNCHANGED <<app, inflight, issued, revoked, now, started, ev, load>>

\* modifyFileWithNewQr -> modifyImage
ModifyImageCall ==
    /\ geo.pc = "called"
    /\ geo.target = "image"
    /\ LET r == modifyImage(geo.q)
       IN  geo' = [geo EXCEPT !.pc = "done", !.fill = r.fill, !.occlusion = r.occlusion,
                              !.placement = r.placement, !.result = r.result]
    /\ UNCHANGED <<app, inflight, issued, revoked, now, started, ev, load>>

GeoNext ==
    \/ ModifyPdfCall
    \/ ModifyImageCall

GeoSpec == GeoInit /\ [][GeoNext]_vars

---------------------------------------------------------------------------
(* The image loads of one modifyImage call *)

\* modifyImage has assigned both src attributes for some detection
LoadInit ==
    /\ app = InitApp
    /\ inflight = EmptyBag
    /\ started = 0
    /\ issued = <<>>
    /\ revoked = {}
    /\ now = 1
    /\ ev = [type |-> "init", op |-> NoOp]
    /\ load = [NoLoad EXCEPT !.originalImg = "loading", !.newQrImg = "loading"]
    /\ \E q \in Quads :
          geo = [NoGeo EXCEPT !.pc = "called", !.target = "image", !.q = q]

\* what the compositing block draws, when this onLoaded call ran it
Composite(before, after) ==
    IF after.composites > before.composites
    THEN LET r == modifyImage(geo.q)
         IN  [geo EXCEPT !.fill = r.fill, !.occlusion = r.occlusion,
                         !.placement = r.placement]
    ELSE geo

\* originalImg.onload = onLoaded
OriginalOnload ==
    /\ load.originalImg = "loading"
    /\ \E ctxOk \in BOOLEAN :
          LET l == onLoaded([load EXCEPT !.originalImg = "loaded",
                                         !.order = Append(@, "originalImg")], ctxOk)
          IN  /\ load' = l
              /\ geo' = Composite(load, l)
    /\ UNCHANGED <<app, inflight, issued, revoked, now, started, ev>>

\* newQrImg.onload = onLoaded
NewQrOnload ==
    /\ load.newQrImg = "loading"
    /\ \E ctxOk \in BOOLEAN :
          LET l == onLoaded([load EXCEPT !.newQrImg = "loaded",
                                         !.order = Append(@, "newQrImg")], ctxOk)
          IN  /\ load' = l
              /\ geo' = Composite(load, l)
    /\ UNCHANGED <<app, inflight, issued, revoked, now, started, ev>>

\* originalImg.onerror
OriginalOnerror ==
    /\ load.originalImg = "loading"
    /\ load' = Settle([load EXCEPT !.originalImg = "failed"], "rejected")
    /\ UNCHANGED <<app, inflight, issued, revoked, now, started, ev, geo>>

\* newQrImg.onerror
NewQrOnerror ==
    /\ load.newQrImg = "loading"
    /\ load' = Settle([load EXCEPT !.newQrImg = "failed"], "rejected")
    /\ UNCHANGED <<app, inflight, issued, revoked, now, started, ev, geo>>

\* the callback of canvas.toBlob, with a blob or with null
ToBlobCallback ==
    /\ load.toBlob = "requested"
    /\ \E blob \in BOOLEAN :
          /\ load' = Settle([load EXCEPT !.toBlob = "called"],
                            IF blob THEN "resolved" ELSE "rejected")
          /\ geo' = [geo EXCEPT !.pc = "done",
                                !.result = IF load'.promise = "resolved"
                                           THEN "ok" ELSE "error"]
    /\ UNCHANGED <<app, inflight, issued, revoked, now, started, ev>>

LoadNext ==
    \/ OriginalOnload
    \/ NewQrOnload
    \/ OriginalOnerror
    \/ NewQrOnerror
    \/ ToBlobCallback

LoadSpec == LoadInit /\ [][LoadNext]_vars

---------------------------------------------------------------------------
(* Session states of the orchestrator, read off the App state *)

\* Empty as the data model lists it: no file, no detections, no preview,
\* empty EditRegistry, no ModifiedArtifact
SessionEmpty ==
    /\ app.file = NoFile
    /\ app.qrCodes = <<>>
    /\ app.fileDataUrl = NoRaster
    /\ DOMAIN app.editedQrCodes = {}
    /\ app.processedFileUrl = NoUrl

\* everything a handler can set but the busy flag
DataOf(s) == [s EXCEPT !.isLoading = FALSE]

ScanInFlight == \E op \in BagToSet(inflight) : op.kind \in {"file", "page"}

Artifacts(iss) == {h \in DOMAIN iss : iss[h].kind = "artifact"}

LiveArtifacts == {h \in Artifacts(issued) : h \notin revoked}

\* the operation was started in the current state and is the only one
Alone(op) ==
    /\ BagCardinality(inflight) = 1
    /\ BagIn(op, inflight)
    /\ op.file = app.file
    /\ op.fileType = app.fileType
    /\ op.page = app.currentPage
    /\ op.qrCodes = app.qrCodes
    /\ op.editedQrCodes = app.editedQrCodes
    /\ op.processedFileUrl = app.processedFileUrl

---------------------------------------------------------------------------
(* Claims *)

\* C1: at every moment at most one scan or replace is in flight.
C1_AtMostOneInFlight == BagCardinality(inflight) <= 1

\* C2: the completion of a scan or replace whose file is no longer the
\* session's file (it was superseded by a reset or a new file) changes no
\* session data, and once the session is Empty it stays Empty until a file
\* is selected.
C2_SupersededResultDiscarded ==
    [][/\ (ev'.type \in {"fileOk", "fileFail", "pageOk", "pageFail",
                         "updateOk", "updateFail"}
              /\ ev'.op.file # app.file
           => DataOf(app') = DataOf(app))
       /\ (SessionEmpty /\ ev'.type # "selectFile" => SessionEmpty')]_vars

\* C3: starting a replace or a page navigation changes no session data, and
\* when it fails its completion changes none either, issues no
\* ModifiedArtifact handle and clears the busy flag: the session is as it
\* was before the operation was triggered.
C3_FailedOperationPreservesState ==
    [][/\ (ev'.type \in {"update", "page"} => DataOf(app') = DataOf(app))
       /\ (ev'.type \in {"updateFail", "pageFail"}
           => /\ DataOf(app') = DataOf(app)
              /\ ~app'.isLoading
              /\ Artifacts(issued') = Artifacts(issued)
              /\ revoked' = revoked)]_vars

\* a replace of a detection of a loaded file has failed on over-capacity text
C3_Witness ==
    /\ ev.type = "updateFail"
    /\ OverCapacity(ev.op.text)
    /\ app.file # NoFile
    /\ ev.op.qr.id \in QrIds(app)
    /\ ~app.isLoading

\* C4: right after the initial scan of a selected file has failed the
\* session is Empty (no file, no kind, no detections, no preview, empty
\* registry, no artifact, page count 0, current page 1) and not busy.
C4_FailedInitialScanEndsEmpty ==
    ev.type = "fileFail" =>
        /\ SessionEmpty
        /\ app.fileType = NoType
        /\ app.selectedQrId = NoId
        /\ app.totalPages = 0
        /\ app.currentPage = 1
        /\ ~app.isLoading

\* the initial scan of a selected file has failed
C4_Witness == ev.type = "fileFail" /\ ev.op.file \in Files /\ inflight = EmptyBag

\* C5: a replace of detection d with text t that succeeds with nothing
\* interleaved leaves the session Ready with registry[d.id] = t, a freshly
\* issued live ModifiedArtifact handle as the current one, the preview the
\* replace returned, and the handle that was current before it revoked.
C5_SuccessfulReplace ==
    [][ev'.type = "updateOk" /\ Alone(ev'.op) =>
        /\ app'.file = app.file /\ app'.file # NoFile /\ ~app'.isLoading
        /\ ev'.op.qr.id \in DOMAIN app'.editedQrCodes
        /\ app'.editedQrCodes[ev'.op.qr.id] = ev'.op.text
        /\ app'.processedFileUrl \notin DOMAIN issued
        /\ app'.processedFileUrl \in Artifacts(issued')
        /\ app'.processedFileUrl \notin revoked'
        /\ app'.fileDataUrl = modifyFileWithNewQr(ev'.op)
        /\ (app.processedFileUrl # NoUrl => app.processedFileUrl \in revoked')]_vars

\* a second replace in a row has succeeded and released the first one's handle
C5_Witness ==
    /\ ev.type = "updateOk"
    /\ inflight = EmptyBag
    /\ app.file = ev.op.file
    /\ ev.op.processedFileUrl # NoUrl
    /\ ev.op.processedFileUrl \in revoked
    /\ app.processedFileUrl \notin revoked
    /\ app.editedQrCodes[ev.op.qr.id] = ev.op.text

\* C6: in every reachable state at most one ModifiedArtifact handle is
\* issued and not released.
C6_AtMostOneLiveArtifact == Cardinality(LiveArtifacts) <= 1

\* C7: after any completed scan or replace every object URL created so far
\* is released or is the one bound as preview raster or ModifiedArtifact.
C7_NoUnboundLiveHandle ==
    ev.type \in {"fileOk", "fileFail", "pageOk", "pageFail", "updateOk", "updateFail"} =>
        \A h \in DOMAIN issued :
            \/ h \in revoked
            \/ h = app.processedFileUrl
            \/ (app.fileDataUrl.kind = "object" /\ app.fileDataUrl.h = h)

\* C8: a successful replace leaves the decoded payload stored on the
\* replaced detection as it was.
C8_ReplaceKeepsDecodedPayload ==
    [][ev'.type = "updateOk" =>
        \A i \in DOMAIN app'.qrCodes :
            app'.qrCodes[i].id = ev'.op.qr.id
                => app'.qrCodes[i].data = ev'.op.qr.data]_vars

\* C9: no step other than a reset (Start Over, the reset of a file selection,
\* the reset of a failed initial scan) removes an entry of the EditRegistry.
C9_RegistryEntriesKept ==
    [][ev'.type \notin {"reset", "selectFile", "fileFail"} =>
        \A k \in DOMAIN app.editedQrCodes : k \in DOMAIN app'.editedQrCodes]_vars

\* C10: while a scan is in flight there are no detections, so none is
\* selected or can be selected.
C10_NoDetectionsWhileScanning ==
    ScanInFlight => app.qrCodes = <<>> /\ app.selectedQrId = NoId

\* C11: right after a successful page navigation to page p the current page
\* is p, the detections are the codes scanned on page p of the file the
\* navigation was started on (stamped at that scan), the preview is the
\* rendering of that page, and nothing is selected.
C11_PageNavigationSuccess ==
    ev.type = "pageOk" =>
        /\ app.currentPage = ev.op.page
        /\ Len(app.qrCodes) = Len(PageCodes(ev.op.file, ev.op.page))
        /\ \A i \in DOMAIN app.qrCodes :
              /\ app.qrCodes[i].data = PageCodes(ev.op.file, ev.op.page)[i]
              /\ app.qrCodes[i].id = <<now, i - 1>>
        /\ app.fileDataUrl.kind = "data"
        /\ app.fileDataUrl.file = ev.op.file
        /\ app.fileDataUrl.page = ev.op.page
        /\ app.fileDataUrl.text = ""
        /\ app.selectedQrId = NoId
        /\ ~app.isLoading

\* a navigation from page 1, where a detection was selected, to page 2 has
\* succeeded
C11_Witness ==
    /\ ev.type = "pageOk"
    /\ ev.op.page = 2
    /\ app.file = ev.op.file
    /\ Len(app.qrCodes) = 1
    /\ app.qrCodes[1].data = "r"

C13_PageNavigationFrame ==
    [][ev'.type \in {"page", "pageOk", "pageFail"} =>
        /\ app'.totalPages = app.totalPages
        /\ app'.file = app.file
        /\ app'.fileType = app.fileType
        /\ app'.editedQrCodes = app.editedQrCodes
        /\ app'.processedFileUrl = app.processedFileUrl
        /\ issued' = issued
        /\ revoked' = revoked]_vars

\* a page navigation has succeeded in a session that holds an edit and a
\* ModifiedArtifact
C13_Witness ==
    /\ ev.type = "pageOk"
    /\ app.file = ev.op.file
    /\ DOMAIN app.editedQrCodes # {}
    /\ app.processedFileUrl \in LiveArtifacts

\* C14: when the initial scan of the session's file resolves and the decoder
\* found no QR code, the session keeps the file and its kind, holds the
\* preview and an empty detection list, and is not busy: it is Ready, not
\* Empty.
C14_ZeroDetectionsIsSuccess ==
    [][/\ ev'.type = "fileOk"
       /\ jsQR(ev'.op.file, 1).shape = "null"
       /\ app.file = ev'.op.file
       => /\ app'.file = ev'.op.file
          /\ app'.fileType = ev'.op.fileType
          /\ app'.qrCodes = <<>>
          /\ app'.fileDataUrl # NoRaster
          /\ app'.fileDataUrl.file = ev'.op.file
          /\ ~app'.isLoading]_vars

\* the scan of a document without QR codes has resolved and the session
\* holds the document
C14_Witness ==
    /\ ev.type = "fileOk"
    /\ jsQR(ev.op.file, 1).shape = "null"
    /\ app.file = ev.op.file
    /\ app.fileType = "pdf"
    /\ app.qrCodes = <<>>
    /\ app.totalPages = 1
    /\ inflight = EmptyBag

\* C15: a file whose media kind is not application/pdf, image/png or
\* image/jpeg never becomes the session's file and no scan of it is ever
\* in flight.
C15_UnsupportedKindRejected ==
    \A f \in Files :
        MediaType(f) \notin {"application/pdf", "image/png", "image/jpeg"} =>
            /\ app.file # f
            /\ \A op \in BagToSet(inflight) : op.file # f

C20_EditNotAttributedAcrossScans ==
    [][ev'.type \in {"fileOk", "pageOk"} =>
        /\ \A i, j \in DOMAIN app'.qrCodes :
              i # j => app'.qrCodes[i].id # app'.qrCodes[j].id
        /\ \A i \in DOMAIN app'.qrCodes :
              MapGetOr(app'.editedQrCodes, app'.qrCodes[i].id, app'.qrCodes[i].data)
                  = app'.qrCodes[i].data]_vars

\* the computed width or height of the detection is zero
Degenerate(q) ==
    \/ Hypot(q.topLeftCorner, q.topRightCorner) = 0
    \/ Hypot(q.topLeftCorner, q.bottomLeftCorner) = 0

\* the detection is not rotated: its top edge runs to the right and its
\* left edge runs down, both along the axes of the raster
AxisAligned(q) ==
    /\ q.topRightCorner.y = q.topLeftCorner.y
    /\ q.topRightCorner.x >= q.topLeftCorner.x
    /\ q.bottomLeftCorner.x = q.topLeftCorner.x
    /\ q.bottomLeftCorner.y >= q.topLeftCorner.y

\* the box of the four corners, converted to points with y up
BoundingBoxInPoints(q, pageHeight) ==
    LET xs == {q.topLeftCorner.x, q.topRightCorner.x,
               q.bottomLeftCorner.x, q.bottomRightCorner.x}
        ys == {q.topLeftCorner.y, q.topRightCorner.y,
               q.bottomLeftCorner.y, q.bottomRightCorner.y}
    IN  [x |-> Min(xs) \div RENDER_SCALE,
         y |-> pageHeight - (Max(ys) \div RENDER_SCALE),
         width |-> (Max(xs) - Min(xs)) \div RENDER_SCALE,
         height |-> (Max(ys) - Min(ys)) \div RENDER_SCALE]

\* C16: a replace of a detection whose computed width or height is zero
\* ends with an error, having drawn nothing, on a PDF and on an image.
C16_DegenerateQuadRejected ==
    geo.pc = "done" /\ Degenerate(geo.q) =>
        /\ geo.result = "error"
        /\ geo.fill = NoQuad
        /\ geo.occlusion = NoRect
        /\ geo.placement = NoRect

\* C17: with S = RENDER_SCALE = 2 and page height H, the rectangle of a PDF
\* replacement has S * x = topLeft.x, (S * width)^2 and (S * height)^2 the
\* squared distances from the top-left corner to the top-right and to the
\* bottom-left one, and y + height = H - topLeft.y / S; for a detection
\* that is not rotated its lower edge y is H - bottomLeft.y / S and its
\* right edge x + width is topRight.x / S.
C17_PdfTargetRectangle ==
    geo.pc = "done" /\ geo.target = "pdf" =>
        LET r == geo.placement
            tl == geo.q.topLeftCorner
            tr == geo.q.topRightCorner
            bl == geo.q.bottomLeftCorner
        IN  /\ RENDER_SCALE = 2
            /\ geo.occlusion = r
            /\ 2 * r.x = tl.x
            /\ (2 * r.width) * (2 * r.width)
                  = (tr.x - tl.x) * (tr.x - tl.x) + (tr.y - tl.y) * (tr.y - tl.y)
            /\ (2 * r.height) * (2 * r.height)
                  = (bl.x - tl.x) * (bl.x - tl.x) + (bl.y - tl.y) * (bl.y - tl.y)
            /\ r.width >= 0 /\ r.height >= 0
            /\ 2 * (r.y + r.height) = 2 * geo.pageHeight - tl.y
            /\ (AxisAligned(geo.q) =>
                  /\ 2 * r.y = 2 * geo.pageHeight - bl.y
                  /\ 2 * (r.x + r.width) = tr.x)

\* a PDF replacement of an unrotated detection of full size has been drawn
C17_Witness ==
    /\ geo.pc = "done"
    /\ geo.target = "pdf"
    /\ AxisAligned(geo.q)
    /\ ~Degenerate(geo.q)
    /\ geo.placement.width = 2
    /\ geo.placement.height = 2
    /\ geo.placement.y = geo.pageHeight - 7

\* C18: a PDF replacement covers and places into the box of the four
\* corners of the detection (min/max of their coordinates, in points),
\* whatever the rotation of the detection (stated for the detections of
\* full size only).
C18_PdfUsesBoundingBox ==
    geo.pc = "done" /\ geo.target = "pdf" /\ ~Degenerate(geo.q) =>
        /\ geo.occlusion = BoundingBoxInPoints(geo.q, geo.pageHeight)
        /\ geo.placement = BoundingBoxInPoints(geo.q, geo.pageHeight)

\* C23: the preview raster the session holds is never an object URL that
\* has been passed to URL.revokeObjectURL.
C23_PreviewHandleLive ==
    app.fileDataUrl.kind = "object" => app.fileDataUrl.h \notin revoked

\* C24: right after a successful replace, with nothing else in flight, the
\* ModifiedArtifact holds, for every detection of the list that has an
\* EditRegistry entry, the QR code of that entry's text at that detection's
\* region.
C24_EditsAccumulate ==
    /\ ev.type = "updateOk"
    /\ inflight = EmptyBag
    /\ app.file = ev.op.file
    /\ app.processedFileUrl \in Artifacts(issued)
    => \A i \in DOMAIN app.qrCodes :
          app.qrCodes[i].id \in DOMAIN app.editedQrCodes =>
              /\ issued[app.processedFileUrl].loc = app.qrCodes[i].loc
              /\ issued[app.processedFileUrl].text
                    = app.editedQrCodes[app.qrCodes[i].id]

\* C25: the selection is empty or the identifier of a detection of the
\* current list.
C25_SelectionInList == app.selectedQrId = NoId \/ app.selectedQrId \in QrIds(app)

\* C26: whenever a PDF is loaded and shown, the current page is a page of
\* that file and within the page count the session holds, the preview is a
\* rendering of that page of that file, and the detections are the codes
\* of that page.
C26_CurrentPageShown ==
    app.file # NoFile /\ app.fileType = "pdf" /\ app.fileDataUrl # NoRaster =>
        /\ app.currentPage \in 1..app.totalPages
        /\ app.totalPages = NumPages(app.file)
        /\ app.fileDataUrl.file = app.file
        /\ app.fileDataUrl.page = app.currentPage
        /\ Len(app.qrCodes) = Len(PageCodes(app.file, app.currentPage))
        /\ \A i \in DOMAIN app.qrCodes :
              app.qrCodes[i].loc = i

\* C21: in modifyImage the compositing runs at most once and only when both
\* images have loaded; once either image has failed it has not run and the
\* promise is rejected, whatever the other image does; a resolved promise
\* means it ran, and something is drawn only if it ran.
C21_CompositeOnceAfterBothLoaded ==
    /\ load.composites <= 1
    /\ (load.composites = 1 =>
          load.originalImg = "loaded" /\ load.newQrImg = "loaded")
    /\ ("failed" \in {load.originalImg, load.newQrImg} =>
          /\ load.composites = 0
          /\ load.toBlob = "none"
          /\ load.promise = "rejected")
    /\ (load.promise = "resolved" => load.composites = 1)
    /\ (load.composites = 0 => geo.fill = NoQuad /\ geo.placement = NoRect)
    /\ (load.originalImg = "loaded" /\ load.newQrImg = "loaded"
           /\ load.promise = "pending" => load.composites = 1)

\* the new QR image loaded first, the original second, and the one
\* composite was drawn and resolved
C21_Witness ==
    /\ load.order = <<"newQrImg", "originalImg">>
    /\ load.composites = 1
    /\ load.promise = "resolved"
    /\ geo.fill = geo.q
    /\ geo.result = "ok"

\* C22: whenever the session is busy, a scan or replace is pending whose
\* completion (success or failure) will clear the busy state: the busy
\* session is never left with nothing that can finish.
C22_BusyOperationCanFinish ==
    app.isLoading =>
        \E op \in BagToSet(inflight) : op.kind \in {"file", "page", "update"}

====
